---- MODULE Spec2Model ----
(***************************************************************************)
(* ChannelProvider (package_control/providers/channel_provider.py).        *)
(*                                                                         *)
(* A URL or a path is a sequence of characters, each a one-character       *)
(* string: 'c.json' is <<"c", ".", "j", "s", "o", "n">>.  The character    *)
(* Two characters that a string of this module cannot spell are elements   *)
(* of their own: LongS is U+017F (LATIN SMALL LETTER LONG S) and           *)
(* FullwidthSolidus is U+FF0F (FULLWIDTH SOLIDUS).  A Python dict is a      *)
(* sequence of [k, v] entries in insertion order; a JSON object with       *)
(* optional keys is a record whose DOMAIN holds the keys that are present. *)
(***************************************************************************)
EXTENDS Integers, Sequences, FiniteSets, TLC

VARIABLES
    channel_url,     \* self.channel_url
    source,          \* what the channel location currently serves
    channel_info,    \* self.channel_info (None or the cached document)
    schema_version,  \* self.schema_version (None or [major |-> n])
    origin,          \* the source the cached document was decoded from
    last             \* the last call made on the instance and its outcome

vars == <<channel_url, source, channel_info, schema_version, origin, last>>

\* Python's None for object-valued slots and fields.
None == [none |-> TRUE]

\* Date strings are numbered in their lexical order: EmptyDate is '' and
\* 1..MaxDate are ISO dates.  NoDate is Python's None where a date string is
\* expected (release.get('date'), last_modified).
EmptyDate == 0

NoDate == -1

-----------------------------------------------------------------------------
(* Bounds *)

MaxRepos == 2
MaxReleases == 2
MaxDate == 2

-----------------------------------------------------------------------------
(* Generic helpers *)

Range(s) == {s[i] : i \in 1..Len(s)}

SeqsUpTo(S, n) == UNION {[1..k -> S] : k \in 0..n}

\* s.startswith(p)
StartsWith(s, p) == Len(s) >= Len(p) /\ SubSeq(s, 1, Len(p)) = p

\* s[i:] with i counted from 1
From(s, i) == SubSeq(s, i, Len(s))

\* s.find(c, start): the first position at or after start that holds c, and 0
\* when there is none (positions are counted from 1)
Find(s, c, start) ==
    LET at == {i \in start..Len(s) : s[i] = c}
    IN IF at = {} THEN 0 ELSE CHOOSE i \in at : \A j \in at : i <= j

\* s.rfind(c)
RFind(s, c) ==
    LET at == {i \in 1..Len(s) : s[i] = c}
    IN IF at = {} THEN 0 ELSE CHOOSE i \in at : \A j \in at : j <= i

\* s.split(sep): the components, each a string, <<>> being the empty one
RECURSIVE SplitFrom(_, _, _, _)
SplitFrom(s, sep, i, cur) ==
    IF i > Len(s) THEN <<cur>>
    ELSE IF s[i] = sep THEN <<cur>> \o SplitFrom(s, sep, i + 1, <<>>)
    ELSE SplitFrom(s, sep, i + 1, Append(cur, s[i]))

SplitBy(s, sep) == SplitFrom(s, sep, 1, <<>>)

\* s.split('/')
Split(s) == SplitBy(s, "/")

\* '/'.join(parts)
RECURSIVE JoinFrom(_, _)
JoinFrom(parts, i) ==
    IF i > Len(parts) THEN <<>>
    ELSE (IF i > 1 THEN <<"/">> ELSE <<>>) \o parts[i] \o JoinFrom(parts, i + 1)

Join(parts) == JoinFrom(parts, 1)

\* filter(None, parts)
SelectSeqNonEmpty(parts) == SelectSeq(parts, LAMBDA p : p # <<>>)

\* s.replace(old, new): every occurrence, found from the left
RECURSIVE ReplaceFrom(_, _, _, _)
ReplaceFrom(s, i, old, new) ==
    IF i > Len(s) THEN <<>>
    ELSE IF i + Len(old) - 1 <= Len(s) /\ SubSeq(s, i, i + Len(old) - 1) = old
    THEN new \o ReplaceFrom(s, i + Len(old), old, new)
    ELSE <<s[i]>> \o ReplaceFrom(s, i + 1, old, new)

Replace(s, old, new) == ReplaceFrom(s, 1, old, new)

-----------------------------------------------------------------------------
(* Ordered dicts *)

DictKeys(d) == {d[i].k : i \in 1..Len(d)}

DictHas(d, key) == key \in DictKeys(d)

DictIndex(d, key) == CHOOSE i \in 1..Len(d) : d[i].k = key

\* d.get(key, default)
DictGet(d, key, default) ==
    IF DictHas(d, key) THEN d[DictIndex(d, key)].v ELSE default

\* d[key] = value: an existing key keeps its position
DictSet(d, key, value) ==
    IF DictHas(d, key)
    THEN [d EXCEPT ![DictIndex(d, key)] = [k |-> key, v |-> value]]
    ELSE Append(d, [k |-> key, v |-> value])

\* del rec[key] on a record
DelKey(rec, key) == [f \in DOMAIN rec \ {key} |-> rec[f]]

\* rec[key] = value on a record
SetKey(rec, key, value) == (key :> value) @@ DelKey(rec, key)

-----------------------------------------------------------------------------
(* Characters *)

LongS == "U+017F"

FullwidthSolidus == "U+FF0F"

LowerCase ==
    <<"a", "b", "c", "d", "e", "f", "g", "h", "i", "j", "k", "l", "m",
      "n", "o", "p", "q", "r", "s", "t", "u", "v", "w", "x", "y", "z">>

UpperCase ==
    <<"A", "B", "C", "D", "E", "F", "G", "H", "I", "J", "K", "L", "M",
      "N", "O", "P", "Q", "R", "S", "T", "U", "V", "W", "X", "Y", "Z">>

Digits == <<"0", "1", "2", "3", "4", "5", "6", "7", "8", "9">>

\* ipaddress._HEX_DIGITS, and [a-fA-F0-9] of the IPvFuture pattern
HexDigits ==
    Range(Digits) \cup {"a", "b", "c", "d", "e", "f", "A", "B", "C", "D", "E", "F"}

\* unicodedata.normalize('NFKC', c) for one character: the long s becomes
\* 's', the fullwidth solidus '/', an ASCII character stays as it is
NFKCOf(c) ==
    IF c = LongS THEN <<"s">>
    ELSE IF c = FullwidthSolidus THEN <<"/">>
    ELSE <<c>>

\* unicodedata.normalize('NFKC', s)
RECURSIVE NFKC(_)
NFKC(s) == IF s = <<>> THEN <<>> ELSE NFKCOf(Head(s)) \o NFKC(Tail(s))

\* c.lower() for an ASCII character (the long s is its own lower case)
lower(c) ==
    IF c \in Range(UpperCase)
    THEN LowerCase[CHOOSE i \in 1..26 : UpperCase[i] = c]
    ELSE c

\* the characters that the pattern letter c matches under re.I on a str:
\* c, its upper case and, for 's', the long s, which case-folds to it
IgnoreCase(c) ==
    {c, UpperCase[CHOOSE i \in 1..26 : LowerCase[i] = c]}
        \cup (IF c = "s" THEN {LongS} ELSE {})

-----------------------------------------------------------------------------
(* URLs and paths *)

\* re.match(r'(https?:)//', url, re.I): group(1) of the match, and <<>> when
\* the pattern does not match
scheme_match(url) ==
    LET http == /\ Len(url) >= 4
                /\ url[1] \in IgnoreCase("h")
                /\ url[2] \in IgnoreCase("t")
                /\ url[3] \in IgnoreCase("t")
                /\ url[4] \in IgnoreCase("p")
    IN IF /\ http
          /\ Len(url) >= 8
          /\ url[5] \in IgnoreCase("s")
          /\ SubSeq(url, 6, 8) = <<":", "/", "/">>
       THEN SubSeq(url, 1, 6)
       ELSE IF http /\ Len(url) >= 7 /\ SubSeq(url, 5, 7) = <<":", "/", "/">>
       THEN SubSeq(url, 1, 5)
       ELSE <<>>

\* re.match(r'https?://', url, re.I)
is_http_url(url) == scheme_match(url) # <<>>

OldHost == <<"r", "a", "w", ".", "g", "i", "t", "h", "u", "b", ".", "c", "o", "m">>

NewHost ==
    <<"r", "a", "w", ".", "g", "i", "t", "h", "u", "b", "u", "s", "e", "r",
      "c", "o", "n", "t", "e", "n", "t", ".", "c", "o", "m">>

\* download_manager.update_url: maps a deprecated hosting URL to its current
\* equivalent ('://raw.github.com/' -> '://raw.githubusercontent.com/').
update_url(url) ==
    Replace(url, <<":", "/", "/">> \o OldHost \o <<"/">>,
                 <<":", "/", "/">> \o NewHost \o <<"/">>)

\* s.rstrip('/')
RECURSIVE RStripSlash(_)
RStripSlash(s) ==
    IF s # <<>> /\ s[Len(s)] = "/" THEN RStripSlash(SubSeq(s, 1, Len(s) - 1))
    ELSE s

\* os.path.dirname(path)
dirname(path) ==
    LET head == SubSeq(path, 1, RFind(path, "/"))
    IN IF head # <<>> /\ Range(head) # {"/"} THEN RStripSlash(head) ELSE head

\* os.path.join(base, rel)
path_join(base, rel) ==
    IF StartsWith(rel, <<"/">>) THEN rel
    ELSE IF base = <<>> \/ base[Len(base)] = "/" THEN base \o rel
    ELSE base \o <<"/">> \o rel

\* os.path.normpath(path)
RECURSIVE NormComps(_, _, _, _)
NormComps(comps, i, new, initial_slashes) ==
    IF i > Len(comps) THEN new
    ELSE LET comp == comps[i]
         IN IF comp \in {<<>>, <<".">>}
            THEN NormComps(comps, i + 1, new, initial_slashes)
            ELSE IF \/ comp # <<".", ".">>
                    \/ (initial_slashes = 0 /\ new = <<>>)
                    \/ (new # <<>> /\ new[Len(new)] = <<".", ".">>)
            THEN NormComps(comps, i + 1, Append(new, comp), initial_slashes)
            ELSE IF new # <<>>
            THEN NormComps(comps, i + 1, SubSeq(new, 1, Len(new) - 1), initial_slashes)
            ELSE NormComps(comps, i + 1, new, initial_slashes)

normpath(path) ==
    LET initial_slashes ==
            IF StartsWith(path, <<"/", "/">>) /\ ~StartsWith(path, <<"/", "/", "/">>)
            THEN 2
            ELSE IF StartsWith(path, <<"/">>) THEN 1 ELSE 0
        new == NormComps(Split(path), 1, <<>>, initial_slashes)
        lead == [j \in 1..initial_slashes |-> "/"]
        out == lead \o Join(new)
    IN IF out = <<>> THEN <<".">> ELSE out

-----------------------------------------------------------------------------
(* urllib.parse, as get_repositories reaches it: the base matched           *)
(* r'(https?:)//' and the url starts with './' or '../', so neither begins  *)
(* with a space or a control character for urlsplit to strip.  A split or   *)
(* parsed URL carries the flag invalid: urlsplit raised ValueError.         *)

Http == <<"h", "t", "t", "p">>

Https == <<"h", "t", "t", "p", "s">>

\* the schemes urlsplit can find in such a base ('' when the fifth character
\* is the long s, which is no scheme character); each is listed in
\* uses_relative, uses_netloc and uses_params
uses_relative == {<<>>, Http, Https}

uses_netloc == {<<>>, Http, Https}

uses_params == {<<>>, Http, Https}

scheme_chars == Range(LowerCase) \cup Range(UpperCase) \cup Range(Digits) \cup {"+", "-", "."}

\* _UNSAFE_URL_BYTES_TO_REMOVE
UnsafeUrlBytes == {"\t", "\r", "\n"}

\* url.replace(b, "") for each b of _UNSAFE_URL_BYTES_TO_REMOVE
RemoveUnsafe(url) == SelectSeq(url, LAMBDA c : c \notin UnsafeUrlBytes)

\* what stands before the first c of s (all of s when it holds none)
Before(s, c) ==
    IF Find(s, c, 1) = 0 THEN s ELSE SubSeq(s, 1, Find(s, c, 1) - 1)

\* what stands after the first c of s ('' when it holds none)
After(s, c) ==
    IF Find(s, c, 1) = 0 THEN <<>> ELSE From(s, Find(s, c, 1) + 1)

\* s.lower()
LowerAll(s) == [j \in 1..Len(s) |-> lower(s[j])]

\* urlsplit: i > 0 and url[0].isascii() and url[0].isalpha() and every
\* character of url[:i] is a scheme character, i being url.find(':')
HasScheme(url) ==
    /\ Find(url, ":", 1) > 1
    /\ url[1] \in Range(LowerCase) \cup Range(UpperCase)
    /\ \A j \in 1..(Find(url, ":", 1) - 1) : url[j] \in scheme_chars

\* _splitnetloc(url, 2): the position of the first of '/', '?' and '#' after
\* the leading '//', and the position past the end when there is none
NetlocEnd(url) ==
    LET delims == {j \in 3..Len(url) : url[j] \in {"/", "?", "#"}}
    IN IF delims = {} THEN Len(url) + 1
       ELSE CHOOSE j \in delims : \A k \in delims : j <= k

\* int(s, 10) for a string of decimal digits
RECURSIVE DecValue(_)
DecValue(s) ==
    IF s = <<>> THEN 0
    ELSE 10 * DecValue(SubSeq(s, 1, Len(s) - 1))
         + (CHOOSE d \in 0..9 : Digits[d + 1] = s[Len(s)])

\* IPv4Address._parse_octet(octet_str) returns
parse_octet(octet_str) ==
    /\ octet_str # <<>>
    /\ Range(octet_str) \subseteq Range(Digits)
    /\ Len(octet_str) <= 3
    /\ (octet_str = <<"0">> \/ octet_str[1] # "0")
    /\ DecValue(octet_str) <= 255

\* IPv4Address(ip_str) is constructed
IPv4Address(ip_str) ==
    /\ "/" \notin Range(ip_str)
    /\ ip_str # <<>>
    /\ Len(SplitBy(ip_str, ".")) = 4
    /\ \A o \in Range(SplitBy(ip_str, ".")) : parse_octet(o)

\* IPv6Address._parse_hextet(hextet_str) returns
parse_hextet(hextet_str) ==
    /\ hextet_str # <<>>
    /\ Range(hextet_str) \subseteq HexDigits
    /\ Len(hextet_str) <= 4

\* IPv6Address._ip_int_from_string below the rewriting of a dotted last
\* part: at most nine parts and at most one '::', which stands for at least
\* one hextet, else exactly eight parts; each part counted is a hextet
ip_int_from_parts(parts) ==
    LET n == Len(parts)
        skips == {i \in 2..(n - 1) : parts[i] = <<>>}
        skip == CHOOSE i \in skips : TRUE
        parts_hi == IF parts[1] = <<>> THEN skip - 2 ELSE skip - 1
        parts_lo == IF parts[n] = <<>> THEN n - skip - 1 ELSE n - skip
    IN /\ n <= 9
       /\ Cardinality(skips) <= 1
       /\ IF skips # {}
          THEN /\ parts[1] = <<>> => parts_hi = 0
               /\ parts[n] = <<>> => parts_lo = 0
               /\ 8 - (parts_hi + parts_lo) >= 1
               /\ \A i \in 1..parts_hi : parse_hextet(parts[i])
               /\ \A i \in (n - parts_lo + 1)..n : parse_hextet(parts[i])
          ELSE /\ n = 8
               /\ parts[1] # <<>>
               /\ parts[n] # <<>>
               /\ \A i \in 1..n : parse_hextet(parts[i])

\* IPv6Address._ip_int_from_string(ip_str) returns: a last part that holds
\* '.' is an IPv4 address and is replaced by its two hextets
ip_int_from_string(ip_str) ==
    LET parts == SplitBy(ip_str, ":")
        front == SubSeq(parts, 1, Len(parts) - 1)
    IN /\ ip_str # <<>>
       /\ Len(parts) >= 3
       /\ IF "." \in Range(parts[Len(parts)])
          THEN /\ IPv4Address(parts[Len(parts)])
               /\ ip_int_from_parts(front \o << <<"0">>, <<"0">> >>)
          ELSE ip_int_from_parts(parts)

\* IPv6Address(addr_str) is constructed: no '/', a scope id after the first
\* '%' that is not empty and holds no '%', and an address before it
IPv6Address(addr_str) ==
    /\ "/" \notin Range(addr_str)
    /\ "%" \in Range(addr_str)
          => (After(addr_str, "%") # <<>> /\ "%" \notin Range(After(addr_str, "%")))
    /\ ip_int_from_string(Before(addr_str, "%"))

\* re.match(r"\Av[a-fA-F0-9]+\..+\Z", hostname) for a hostname that starts
\* with 'v' and holds no newline
IPvFuture(hostname) ==
    LET others == {i \in 2..Len(hostname) : hostname[i] \notin HexDigits}
        dot == IF others = {} THEN 0
               ELSE CHOOSE i \in others : \A j \in others : i <= j
    IN dot > 2 /\ hostname[dot] = "." /\ Len(hostname) > dot

\* _check_bracketed_host(hostname) returns: an IPvFuture address, or an
\* address that ipaddress.ip_address takes for an IPv6 one
check_bracketed_host(hostname) ==
    IF StartsWith(hostname, <<"v">>) THEN IPvFuture(hostname)
    ELSE IPv6Address(hostname)

\* _checknetloc(netloc) raises
checknetloc(netloc) ==
    LET n == SelectSeq(netloc, LAMBDA c : c \notin {"@", ":", "#", "?"})
    IN n # NFKC(n) /\ Range(NFKC(n)) \cap {"/", "?", "#", "@", ":"} # {}

\* urlsplit raises ValueError on the network location: a '[' without a ']'
\* or a ']' without a '[', a bracketed host that is rejected, or a character
\* that NFKC turns into a delimiter
InvalidNetloc(netloc) ==
    \/ ("[" \in Range(netloc)) # ("]" \in Range(netloc))
    \/ /\ "[" \in Range(netloc)
       /\ "]" \in Range(netloc)
       /\ ~check_bracketed_host(Before(After(netloc, "["), "]"))
    \/ checknetloc(netloc)

\* urlsplit below the network location: the fragment is split off at the
\* first '#', then the query at the first '?'
SplitRest(scheme, netloc, url) ==
    [invalid |-> InvalidNetloc(netloc),
     scheme |-> scheme, netloc |-> netloc,
     path |-> Before(Before(url, "#"), "?"),
     query |-> After(Before(url, "#"), "?"),
     fragment |-> After(url, "#")]

\* urlsplit below the scheme: if url[:2] == '//'
SplitNetloc(scheme, url) ==
    IF StartsWith(url, <<"/", "/">>)
    THEN SplitRest(scheme, SubSeq(url, 3, NetlocEnd(url) - 1), From(url, NetlocEnd(url)))
    ELSE SplitRest(scheme, <<>>, url)

\* urlsplit(url, scheme)
urlsplit(url, scheme) ==
    IF HasScheme(RemoveUnsafe(url))
    THEN SplitNetloc(LowerAll(Before(RemoveUnsafe(url), ":")), After(RemoveUnsafe(url), ":"))
    ELSE SplitNetloc(scheme, RemoveUnsafe(url))

\* _splitparams(url), called for a url that holds ';': the position of the
\* ';' that starts the params, 0 when the last segment holds none
splitparams(url) ==
    IF "/" \in Range(url) THEN Find(url, ";", RFind(url, "/")) ELSE Find(url, ";", 1)

\* urlparse below its urlsplit
SplitParams(s) ==
    LET i == IF s.scheme \in uses_params /\ ";" \in Range(s.path)
             THEN splitparams(s.path) ELSE 0
    IN [invalid |-> s.invalid,
        scheme |-> s.scheme, netloc |-> s.netloc,
        path |-> IF i = 0 THEN s.path ELSE SubSeq(s.path, 1, i - 1),
        params |-> IF i = 0 THEN <<>> ELSE From(s.path, i + 1),
        query |-> s.query, fragment |-> s.fragment]

\* urlparse(url, scheme)
urlparse(url, scheme) == SplitParams(urlsplit(url, scheme))

\* urlunsplit((scheme, netloc, url, query, fragment))
urlunsplit(scheme, netloc, url, query, fragment) ==
    (IF scheme # <<>> THEN scheme \o <<":">> ELSE <<>>)
    \o (IF \/ netloc # <<>>
           \/ scheme # <<>> /\ scheme \in uses_netloc /\ ~StartsWith(url, <<"/", "/">>)
        THEN <<"/", "/">> \o netloc
             \o (IF url # <<>> /\ url[1] # "/" THEN <<"/">> ELSE <<>>)
        ELSE <<>>)
    \o url
    \o (IF query # <<>> THEN <<"?">> \o query ELSE <<>>)
    \o (IF fragment # <<>> THEN <<"#">> \o fragment ELSE <<>>)

\* urlunparse((scheme, netloc, url, params, query, fragment))
urlunparse(scheme, netloc, path, params, query, fragment) ==
    urlunsplit(scheme, netloc,
               IF params # <<>> THEN path \o <<";">> \o params ELSE path,
               query, fragment)

\* base_parts = bpath.split('/'), without its last item unless that is ''
BaseParts(parts) ==
    IF parts[Len(parts)] # <<>> THEN SubSeq(parts, 1, Len(parts) - 1) ELSE parts

\* segments[1:-1] = filter(None, segments[1:-1])
FilterMiddle(segments) ==
    IF Len(segments) <= 2 THEN segments
    ELSE <<segments[1]>>
         \o SelectSeqNonEmpty(SubSeq(segments, 2, Len(segments) - 1))
         \o <<segments[Len(segments)]>>

\* the segments urljoin resolves
Segments(bpath, path) ==
    IF StartsWith(path, <<"/">>) THEN Split(path)
    ELSE FilterMiddle(BaseParts(Split(bpath)) \o Split(path))

\* the loop of urljoin over the segments
RECURSIVE ResolveSegments(_, _, _)
ResolveSegments(segments, i, resolved) ==
    IF i > Len(segments) THEN resolved
    ELSE IF segments[i] = <<".", ".">>
    THEN ResolveSegments(segments, i + 1,
             IF resolved = <<>> THEN resolved
             ELSE SubSeq(resolved, 1, Len(resolved) - 1))
    ELSE IF segments[i] = <<".">>
    THEN ResolveSegments(segments, i + 1, resolved)
    ELSE ResolveSegments(segments, i + 1, Append(resolved, segments[i]))

\* '/'.join(resolved_path) or '/', a '' being appended to the resolved path
\* when the last segment is '.' or '..'
ResolvedPath(segments) ==
    LET path == Join(ResolveSegments(segments, 1, <<>>)
                     \o (IF segments[Len(segments)] \in {<<".">>, <<".", ".">>}
                         THEN << <<>> >> ELSE <<>>))
    IN IF path = <<>> THEN <<"/">> ELSE path

\* urljoin below its two calls of urlparse
JoinParsed(url, b, u) ==
    IF u.scheme # b.scheme \/ u.scheme \notin uses_relative
    THEN url
    ELSE IF u.scheme \in uses_netloc /\ u.netloc # <<>>
    THEN urlunparse(u.scheme, u.netloc, u.path, u.params, u.query, u.fragment)
    ELSE IF u.path = <<>> /\ u.params = <<>>
    THEN urlunparse(u.scheme,
                    IF u.scheme \in uses_netloc THEN b.netloc ELSE u.netloc,
                    b.path, b.params,
                    IF u.query = <<>> THEN b.query ELSE u.query, u.fragment)
    ELSE urlunparse(u.scheme,
                    IF u.scheme \in uses_netloc THEN b.netloc ELSE u.netloc,
                    ResolvedPath(Segments(b.path, u.path)),
                    u.params, u.query, u.fragment)

\* urljoin from its second urlparse on
JoinUrl(url, b, u) ==
    IF u.invalid THEN [raises |-> TRUE, value |-> <<>>]
    ELSE [raises |-> FALSE, value |-> JoinParsed(url, b, u)]

\* urljoin below its first urlparse
JoinWithBase(url, b) ==
    IF b.invalid THEN [raises |-> TRUE, value |-> <<>>]
    ELSE JoinUrl(url, b, urlparse(url, b.scheme))

\* urllib.parse.urljoin(base, url): whether it raises ValueError, and the
\* URL it returns when it does not
urljoin(base, url) ==
    IF base = <<>> THEN [raises |-> FALSE, value |-> url]
    ELSE IF url = <<>> THEN [raises |-> FALSE, value |-> base]
    ELSE JoinWithBase(url, urlparse(base, <<>>))

-----------------------------------------------------------------------------
(* Collaborators of the provider *)

\* schema_compat.SchemaVersion: the supported raw versions and their major
SchemaMajor(raw) ==
    IF raw \in {"1.0", "1.1", "1.2"} THEN 1
    ELSE IF raw = "2.0" THEN 2
    ELSE IF raw = "3.0.0" THEN 3
    ELSE IF raw = "4.0.0" THEN 4
    ELSE 0

SchemaSupported(raw) == SchemaMajor(raw) # 0

\* versions.version_sort(releases, 'platforms', reverse=True): a stable
\* sort, highest version first, platforms as the tie-break
PlatformRank(p) ==
    IF p = "*" THEN 1 ELSE IF p = "linux" THEN 2 ELSE IF p = "osx" THEN 3 ELSE 4

RECURSIVE PlatformsLess(_, _)
PlatformsLess(a, b) ==
    IF a = <<>> THEN b # <<>>
    ELSE IF b = <<>> THEN FALSE
    ELSE IF PlatformRank(a[1]) # PlatformRank(b[1])
    THEN PlatformRank(a[1]) < PlatformRank(b[1])
    ELSE PlatformsLess(Tail(a), Tail(b))

SortKeyLess(a, b) ==
    \/ a.version < b.version
    \/ a.version = b.version /\ PlatformsLess(a.platforms, b.platforms)

RECURSIVE InsertDesc(_, _)
InsertDesc(sorted, r) ==
    IF sorted = <<>> THEN <<r>>
    ELSE IF SortKeyLess(Head(sorted), r) THEN <<r>> \o sorted
    ELSE <<Head(sorted)>> \o InsertDesc(Tail(sorted), r)

RECURSIVE version_sort(_)
version_sort(releases) ==
    IF releases = <<>> THEN <<>>
    ELSE InsertDesc(version_sort(SubSeq(releases, 1, Len(releases) - 1)),
                    releases[Len(releases)])

\* schema_compat.platforms_to_releases: the release list synthesized from a
\* schema 1.x package record (platforms / version / url on the package)
platforms_to_releases(info) ==
    IF info.platforms = <<>> THEN <<>>
    ELSE <<[version |-> info.version,
            url |-> update_url(info.url),
            platforms |-> info.platforms]>>

-----------------------------------------------------------------------------
(* fetch() *)

ErrNone == "ok"
ErrDownloader == "DownloaderException"
ErrNoFile == "ProviderException: file does not exist"
ErrNoUrlAttribute == "AttributeError: 'ChannelProvider' object has no attribute 'url'"
ErrValueError == "ValueError"

\* raise InvalidChannelFileException(self, reason_message): the constructor
\* formats channel.url, and the provider's slots hold channel_url and no url,
\* so what propagates is the AttributeError of that read, whatever the reason
InvalidChannelFileException(reason_message) == ErrNoUrlAttribute

packages_key(major) == IF major >= 2 THEN "packages_cache" ELSE "packages"

libraries_key(major) == IF major >= 4 THEN "libraries_cache" ELSE "dependencies_cache"

\* new_cache[update_url(repo)] = original_cache[repo], in iteration order
RECURSIVE RewriteKeys(_, _, _)
RewriteKeys(original_cache, i, new_cache) ==
    IF i > Len(original_cache) THEN new_cache
    ELSE RewriteKeys(original_cache, i + 1,
             DictSet(new_cache, update_url(original_cache[i].k), original_cache[i].v))

FixCacheKeys(doc, major) ==
    LET pk == packages_key(major)
    IN IF pk \in DOMAIN doc
       THEN SetKey(doc, pk, RewriteKeys(doc[pk], 1, <<>>))
       ELSE doc

\* fetch() that takes a missing schema_version key for version 1.0
LoadDefaultsVersion(url, src) ==
    IF src.status # "ok"
    THEN [err |-> IF src.status = "garbled"
                  THEN InvalidChannelFileException("parsing JSON failed.")
                  ELSE IF is_http_url(url) THEN ErrDownloader ELSE ErrNoFile,
          channel_info |-> None, schema_version |-> None,
          io |-> src.status = "garbled" \/ is_http_url(url)]
    ELSE LET raw == IF "schema_version" \in DOMAIN src.doc
                    THEN src.doc.schema_version ELSE "1.0"
         IN IF ~SchemaSupported(raw)
            THEN [err |-> InvalidChannelFileException("schema_version is not supported"),
                  channel_info |-> None,
                  schema_version |-> None, io |-> TRUE]
            ELSE [err |-> ErrNone,
                  channel_info |-> FixCacheKeys(src.doc, SchemaMajor(raw)),
                  schema_version |-> [major |-> SchemaMajor(raw)],
                  io |-> TRUE]

\* The body of fetch() below its guard: what it raises, what it assigns to
\* self.channel_info and self.schema_version, and whether it invoked the
\* downloader or read the file.
Load(url, src) ==
    LET fail(e, io) == [err |-> e, channel_info |-> None,
                        schema_version |-> None, io |-> io]
    IN IF is_http_url(url) /\ src.status = "unavailable"
       THEN fail(ErrDownloader, TRUE)
       ELSE IF ~is_http_url(url) /\ src.status = "unavailable"
       THEN fail(ErrNoFile, FALSE)
       ELSE IF src.status = "garbled"
       THEN fail(InvalidChannelFileException("parsing JSON failed."), TRUE)
       ELSE IF "schema_version" \notin DOMAIN src.doc
       THEN fail(InvalidChannelFileException("the schema_version JSON key is missing."), TRUE)
       ELSE IF ~SchemaSupported(src.doc.schema_version)
       THEN fail(InvalidChannelFileException("schema_version is not supported"), TRUE)
       ELSE LET major == SchemaMajor(src.doc.schema_version)
            IN [err |-> ErrNone,
                channel_info |-> FixCacheKeys(src.doc, major),
                schema_version |-> [major |-> major],
                io |-> TRUE]

\* if self.channel_info is not None: return
NeedsFetchAlways(ci) == TRUE

NeedsFetch(ci) == ci = None

\* fetch() that stores the decoded document before validating its version
FetchStateStoresEarly(url, src, ci, sv, og) ==
    IF ~NeedsFetch(ci)
    THEN [err |-> ErrNone, channel_info |-> ci, schema_version |-> sv,
          origin |-> og, io |-> FALSE]
    ELSE LET out == Load(url, src)
         IN IF out.err = ErrNone
            THEN [err |-> ErrNone, channel_info |-> out.channel_info,
                  schema_version |-> out.schema_version,
                  origin |-> src, io |-> TRUE]
            ELSE IF src.status = "ok"
            THEN [err |-> out.err, channel_info |-> src.doc, schema_version |-> sv,
                  origin |-> src, io |-> out.io]
            ELSE [err |-> out.err, channel_info |-> ci, schema_version |-> sv,
                  origin |-> og, io |-> out.io]

\* fetch() on an instance whose slots are (ci, sv), og being the source the
\* cached document came from: the slots after the call and the outcome.
FetchState(url, src, ci, sv, og) ==
    IF ~NeedsFetch(ci)
    THEN [err |-> ErrNone, channel_info |-> ci, schema_version |-> sv,
          origin |-> og, io |-> FALSE]
    ELSE LET out == Load(url, src)
         IN IF out.err = ErrNone
            THEN [err |-> ErrNone, channel_info |-> out.channel_info,
                  schema_version |-> out.schema_version,
                  origin |-> src, io |-> TRUE]
            ELSE [err |-> out.err, channel_info |-> ci, schema_version |-> sv,
                  origin |-> og, io |-> out.io]

-----------------------------------------------------------------------------
(* Query methods: what each returns on a fetched instance *)

\* get_name_map() below its fetch
name_map(ci, major) ==
    IF major >= 2 THEN <<>>
    ELSE IF "package_name_map" \in DOMAIN ci THEN ci.package_name_map ELSE <<>>

\* previous_names of a package as a list: a bare string is wrapped
previous_names_list(package) ==
    IF "previous_names" \notin DOMAIN package THEN <<>>
    ELSE IF "list" \in DOMAIN package.previous_names
    THEN package.previous_names.list
    ELSE <<package.previous_names.str>>

RECURSIVE RenamedOfNames(_, _, _, _)
RenamedOfNames(names, i, name, output) ==
    IF i > Len(names) THEN output
    ELSE RenamedOfNames(names, i + 1, name, DictSet(output, names[i], name))

RECURSIVE RenamedOfPackages(_, _, _)
RenamedOfPackages(packages, i, output) ==
    IF i > Len(packages) THEN output
    ELSE RenamedOfPackages(packages, i + 1,
             RenamedOfNames(previous_names_list(packages[i]), 1,
                            packages[i].name, output))

RECURSIVE RenamedOfRepos(_, _, _)
RenamedOfRepos(cache, i, output) ==
    IF i > Len(cache) THEN output
    ELSE RenamedOfRepos(cache, i + 1, RenamedOfPackages(cache[i].v, 1, output))

\* get_renamed_packages() below its fetch
renamed_packages(ci, major) ==
    IF major >= 2
    THEN IF "packages_cache" \in DOMAIN ci
         THEN RenamedOfRepos(ci.packages_cache, 1, <<>>)
         ELSE <<>>
    ELSE IF "renamed_packages" \in DOMAIN ci THEN ci.renamed_packages ELSE <<>>

\* repository = urljoin(self.channel_url, repository), or the path
\* os.path.normpath(os.path.join(relative_base, repository)), relative_base
\* being os.path.dirname(self.channel_url)
join_relative(url, repository) ==
    IF is_http_url(url)
    THEN [err |-> IF urljoin(url, repository).raises THEN ErrValueError ELSE ErrNone,
          value |-> urljoin(url, repository).value]
    ELSE [err |-> ErrNone, value |-> normpath(path_join(dirname(url), repository))]

\* what one pass appends: output.append(update_url(repository, debug))
appended(joined) ==
    [keep |-> TRUE, err |-> joined.err,
     value |-> IF joined.err = ErrNone THEN update_url(joined.value) ELSE <<>>]

\* One pass of the loop of get_repositories over one entry: whether the
\* entry is kept, what the pass raises, and what is appended to the output.
resolve_repository(url, repository) ==
    IF StartsWith(repository, <<"/", "/">>)
    THEN appended([err |-> ErrNone,
                   value |-> (IF scheme_match(url) # <<>> THEN scheme_match(url)
                              ELSE Https \o <<":">>) \o repository])
    ELSE IF StartsWith(repository, <<"/">>)
    THEN [keep |-> FALSE, err |-> ErrNone, value |-> <<>>]
    ELSE IF StartsWith(repository, <<".", "/">>) \/ StartsWith(repository, <<".", ".", "/">>)
    THEN appended(join_relative(url, repository))
    ELSE appended([err |-> ErrNone, value |-> repository])

\* the loop of get_repositories from the i-th entry on: the error that ends
\* it, or the list it leaves
RECURSIVE RepositoriesFrom(_, _, _, _)
RepositoriesFrom(url, repositories, i, output) ==
    IF i > Len(repositories) THEN [err |-> ErrNone, result |-> output]
    ELSE LET r == resolve_repository(url, repositories[i])
         IN IF r.err # ErrNone THEN [err |-> r.err, result |-> None]
            ELSE RepositoriesFrom(url, repositories, i + 1,
                     IF r.keep THEN Append(output, r.value) ELSE output)

\* get_repositories() below its fetch: the error raised and the list returned
repositories(url, ci) ==
    IF "repositories" \notin DOMAIN ci
    THEN [err |-> InvalidChannelFileException("the repositories JSON key is missing."),
          result |-> None]
    ELSE RepositoriesFrom(url, ci.repositories, 1, <<>>)

\* date = release.get('date')
release_date(release) == IF "date" \in DOMAIN release THEN release.date ELSE NoDate

\* not date: None and '' are falsy
Falsy(date) == date \in {NoDate, EmptyDate}

\* if not last_modified or (date and date > last_modified): last_modified = date
last_modified_step(last_modified, date) ==
    IF Falsy(last_modified) \/ (~Falsy(date) /\ date > last_modified)
    THEN date ELSE last_modified

RECURSIVE LastModifiedFrom(_, _, _)
LastModifiedFrom(releases, i, last_modified) ==
    IF i > Len(releases) THEN last_modified
    ELSE LastModifiedFrom(releases, i + 1,
             last_modified_step(last_modified, release_date(releases[i])))

\* if major < 4 and 'dependencies' in release: rename the key in place
rename_always(release, major) ==
    IF major < 4
    THEN SetKey(DelKey(release, "dependencies"), "libraries",
                IF "dependencies" \in DOMAIN release THEN release.dependencies ELSE <<>>)
    ELSE release

rename_keep_old(release, major) ==
    IF major < 4 /\ "dependencies" \in DOMAIN release
    THEN SetKey(release, "libraries", release.dependencies)
    ELSE release

rename_dependencies(release, major) ==
    IF major < 4 /\ "dependencies" \in DOMAIN release
    THEN SetKey(DelKey(release, "dependencies"), "libraries", release.dependencies)
    ELSE release

\* the defaults table of get_packages
Defaults ==
    [buy |-> None, issues |-> None, labels |-> <<>>,
     previous_names |-> [list |-> <<>>], readme |-> None, donate |-> None]

fill_defaults(copy) ==
    [f \in DOMAIN copy \cup DOMAIN Defaults |->
        IF f \in DOMAIN copy THEN copy[f] ELSE Defaults[f]]

\* One pass of the loop of get_packages over one cached package record:
\* the record as the cache holds it afterwards (the release dicts are shared
\* with the shallow copy) and the record put into the output.  Records of a
\* schema >= 2 document carry 'releases', those of a 1.x document 'platforms'.
normalize_package(package, major) ==
    IF major < 2
    THEN [cached |-> package,
          out |-> LET copy == SetKey(DelKey(package, "platforms"), "releases",
                                     platforms_to_releases(package))
                  IN [fill_defaults(copy) EXCEPT !.releases = version_sort(copy.releases)]]
    ELSE LET releases == [i \in 1..Len(package.releases) |->
                             rename_dependencies(package.releases[i], major)]
             copy == SetKey([package EXCEPT !.releases = releases], "last_modified",
                            LastModifiedFrom(package.releases, 1, NoDate))
         IN [cached |-> [package EXCEPT !.releases = releases],
             out |-> [fill_defaults(copy) EXCEPT !.releases = version_sort(releases)]]

RECURSIVE IndexByName(_, _, _)
IndexByName(records, i, output) ==
    IF i > Len(records) THEN output
    ELSE IndexByName(records, i + 1, DictSet(output, records[i].name, records[i]))

CacheOf(ci, key) == IF key \in DOMAIN ci THEN ci[key] ELSE <<>>

\* get_packages(repo_url) below its fetch: the document afterwards and the
\* mapping returned
packages(ci, major, repo_url) ==
    LET url == update_url(repo_url)
        pk == packages_key(major)
        cache == CacheOf(ci, pk)
        list == DictGet(cache, url, <<>>)
        norm == [i \in 1..Len(list) |-> normalize_package(list[i], major)]
    IN [channel_info |->
            IF DictHas(cache, url)
            THEN SetKey(ci, pk, DictSet(cache, url, [i \in 1..Len(list) |-> norm[i].cached]))
            ELSE ci,
        result |-> IndexByName([i \in 1..Len(list) |-> norm[i].out], 1, <<>>)]

\* get_libraries(repo_url) below its fetch: each library's releases are
\* replaced by the sorted list in the cached record itself
libraries(ci, major, repo_url) ==
    LET url == update_url(repo_url)
        lk == libraries_key(major)
        cache == CacheOf(ci, lk)
        list == DictGet(cache, url, <<>>)
        sorted == [i \in 1..Len(list) |->
                      [list[i] EXCEPT !.releases = version_sort(list[i].releases)]]
    IN [channel_info |->
            IF DictHas(cache, url) THEN SetKey(ci, lk, DictSet(cache, url, sorted)) ELSE ci,
        result |-> IndexByName(sorted, 1, <<>>)]

-----------------------------------------------------------------------------
(* The channel locations, documents and query arguments that are explored *)

\* 'hTTps://h/a/c.json?ref=b/m'
ChanHttps ==
    <<"h", "T", "T", "p", "s", ":", "/", "/", "h", "/", "a", "/", "c", ".", "j", "s", "o", "n", "?", "r", "e", "f", "=", "b", "/", "m">>

\* 'Http://h/c.json'
ChanHttpMixed ==
    <<"H", "t", "t", "p", ":", "/", "/", "h", "/", "c", ".", "j", "s", "o", "n">>

\* 'http' + U+017F + '://h/a/c.json'
ChanHttpLongS ==
    <<"h", "t", "t", "p", LongS, ":", "/", "/", "h", "/", "a", "/", "c", ".", "j", "s", "o", "n">>

\* 'http://[h/c.json'
ChanHttpBracket ==
    <<"h", "t", "t", "p", ":", "/", "/", "[", "h", "/", "c", ".", "j", "s", "o", "n">>

\* 'http://h' + U+FF0F + 'x/c.json'
ChanHttpFullwidth ==
    <<"h", "t", "t", "p", ":", "/", "/", "h", FullwidthSolidus, "x", "/", "c", ".", "j", "s", "o", "n">>

\* '/a/b/c.json'
ChanFileAbs == <<"/", "a", "/", "b", "/", "c", ".", "j", "s", "o", "n">>

\* 'c.json'
ChanFileRel == <<"c", ".", "j", "s", "o", "n">>

ChannelUrls ==
    {ChanHttps, ChanHttpMixed, ChanHttpLongS, ChanHttpBracket, ChanHttpFullwidth,
     ChanFileAbs, ChanFileRel}

\* 'https://raw.github.com/r'
OldUrl == Https \o <<":", "/", "/">> \o OldHost \o <<"/", "r">>

\* 'https://raw.githubusercontent.com/r'
NewUrl == Https \o <<":", "/", "/">> \o NewHost \o <<"/", "r">>

\* 'https://h2/r'
OtherUrl == <<"h", "t", "t", "p", "s", ":", "/", "/", "h", "2", "/", "r">>

QueryUrls == {OldUrl, NewUrl, OtherUrl}

\* '//raw.github.com/r', '/etc/passwd', './r;p?q=../x#f', '../.<TAB>./r',
\* 'https://raw.github.com/r' and 'r'
RepoEntries ==
    { <<"/", "/">> \o OldHost \o <<"/", "r">>,
      <<"/", "e", "t", "c", "/", "p", "a", "s", "s", "w", "d">>,
      <<".", "/", "r", ";", "p", "?", "q", "=", ".", ".", "/", "x", "#", "f">>,
      <<".", ".", "/", ".", "\t", ".", "/", "r">>,
      OldUrl,
      <<"r">> }

\* releases declare the versions 1 ("1.0.0") and 2 ("2.0.0")

BaseRelease(v) == [version |-> v, platforms |-> <<"*">>]

DatedRelease(v, d) ==
    IF d = NoDate THEN BaseRelease(v) ELSE SetKey(BaseRelease(v), "date", d)

\* the older version undated and with every date, and the newer version dated
DateReleases ==
    {DatedRelease(1, d) : d \in {NoDate, EmptyDate} \cup 1..MaxDate}
        \cup {DatedRelease(2, 1)}

DepsRelease(v, kind) ==
    IF kind = "dependencies" THEN SetKey(BaseRelease(v), "dependencies", <<"lib-a">>)
    ELSE IF kind = "libraries" THEN SetKey(BaseRelease(v), "libraries", <<"lib-b">>)
    ELSE IF kind = "both"
    THEN SetKey(SetKey(BaseRelease(v), "dependencies", <<"lib-a">>), "libraries", <<"lib-b">>)
    ELSE BaseRelease(v)

DepsReleases ==
    {DepsRelease(1, kind) : kind \in {"none", "dependencies", "libraries", "both"}}
    \cup {DepsRelease(2, "dependencies")}

BaseDoc(raw) == [schema_version |-> raw, repositories |-> <<>>]

Package(name, releases) == [name |-> name, releases |-> releases]

PackageV1(name) ==
    [name |-> name, platforms |-> <<"*">>, version |-> 1, url |-> OldUrl]

\* documents whose one package varies over its release list
ReleaseDocs ==
    {SetKey(BaseDoc(raw), "packages_cache",
            <<[k |-> NewUrl, v |-> <<Package("p", rs)>>]>>) :
        raw \in {"2.0", "4.0.0"}, rs \in SeqsUpTo(DateReleases, MaxReleases)}
    \cup
    {SetKey(BaseDoc(raw), "packages_cache",
            <<[k |-> NewUrl, v |-> <<Package("p", rs)>>]>>) :
        raw \in {"2.0", "3.0.0", "4.0.0"}, rs \in SeqsUpTo(DepsReleases, MaxReleases)}

\* the record list stored under each repository key
ListOf(kind, key) ==
    LET name == IF key = OldUrl THEN "old" ELSE IF key = NewUrl THEN "new" ELSE "other"
    IN IF kind = "v1" THEN <<PackageV1(name)>>
       ELSE IF kind = "lib"
       THEN <<[name |-> name, load_order |-> "50",
               releases |-> <<BaseRelease(1), BaseRelease(2)>>]>>
       ELSE <<Package(name, <<DepsRelease(1, "dependencies")>>), Package("p", <<>>)>>

KeyOrders ==
    {ks \in SeqsUpTo(QueryUrls, 2) : \A i, j \in 1..Len(ks) : i # j => ks[i] # ks[j]}

CacheOfKeys(kind, ks) == [i \in 1..Len(ks) |-> [k |-> ks[i], v |-> ListOf(kind, ks[i])]]

\* documents whose caches vary over their repository keys
CacheDocs ==
    {SetKey(BaseDoc("1.0"), "packages", CacheOfKeys("v1", ks)) : ks \in KeyOrders}
    \cup
    {SetKey(BaseDoc(raw), "packages_cache", CacheOfKeys("v2", ks)) :
        raw \in {"2.0", "4.0.0"}, ks \in KeyOrders}
    \cup
    {SetKey(BaseDoc("3.0.0"), "dependencies_cache", CacheOfKeys("lib", ks)) : ks \in KeyOrders}
    \cup
    {SetKey(BaseDoc("4.0.0"), "libraries_cache", CacheOfKeys("lib", ks)) : ks \in KeyOrders}

\* documents whose repositories list varies
RepositoryDocs ==
    {[schema_version |-> "3.0.0", repositories |-> rs] : rs \in SeqsUpTo(RepoEntries, MaxRepos)}

\* documents that lack a required key, declare an unsupported version, or
\* carry the name maps
OtherDocs ==
    { [repositories |-> <<>>],
      [schema_version |-> "9.9", repositories |-> <<>>],
      [schema_version |-> "3.0.0"],
      [schema_version |-> "1.2", repositories |-> <<OldUrl>>,
       package_name_map |-> <<[k |-> "slug", v |-> "Name"]>>,
       renamed_packages |-> <<[k |-> "a", v |-> "b"]>>],
      [schema_version |-> "2.0", repositories |-> <<OldUrl>>,
       packages_cache |->
           <<[k |-> OldUrl,
              v |-> <<SetKey(Package("b", <<>>), "previous_names", [str |-> "a"]),
                      SetKey(Package("c", <<>>), "previous_names", [list |-> <<"a", "d">>])>>]>>] }

Serving(doc) == [status |-> "ok", doc |-> doc]
Unavailable == [status |-> "unavailable", doc |-> None]
Garbled == [status |-> "garbled", doc |-> None]

\* what the location serves once the document there has been replaced
AltSources == {Serving([schema_version |-> "4.0.0", repositories |-> <<OtherUrl>>])}

-----------------------------------------------------------------------------
(* The instance *)

NoCall == [op |-> "none", arg |-> <<>>, err |-> ErrNone, result |-> None,
           io |-> FALSE, again |-> FALSE]

\* __init__(channel_url, settings)
Init ==
    /\ \/ /\ channel_url = ChanHttps
          /\ source \in {Serving(d) : d \in ReleaseDocs \cup CacheDocs}
       \/ /\ channel_url \in ChannelUrls
          /\ source \in {Serving(d) : d \in RepositoryDocs \cup OtherDocs}
                        \cup {Unavailable, Garbled}
    /\ channel_info = None
    /\ schema_version = None
    /\ origin = None
    /\ last = NoCall

\* The instance and the record of the call after a method ran: f is the
\* outcome of its fetch, ci the document after the method's own work.
Returned(op, arg, f, ci, err, result) ==
    /\ channel_info' = ci
    /\ schema_version' = f.schema_version
    /\ origin' = f.origin
    /\ last' = [op |-> op, arg |-> arg, err |-> err, result |-> result,
                io |-> f.io, again |-> last.op = op /\ last.arg = arg]
    /\ UNCHANGED <<channel_url, source>>

Fetched == FetchState(channel_url, source, channel_info, schema_version, origin)

Raised(op, arg, f) == Returned(op, arg, f, f.channel_info, f.err, None)

fetch ==
    LET f == Fetched
    IN /\ channel_info' = f.channel_info
       /\ schema_version' = f.schema_version
       /\ origin' = f.origin
       /\ last' = [op |-> "fetch", arg |-> <<>>, err |-> f.err, result |-> None,
                   io |-> f.io, again |-> last.op = "fetch"]
       /\ UNCHANGED <<channel_url, source>>

\* prefetch() is self.fetch()
prefetch ==
    LET f == Fetched
    IN /\ channel_info' = f.channel_info
       /\ schema_version' = f.schema_version
       /\ origin' = f.origin
       /\ last' = [op |-> "prefetch", arg |-> <<>>, err |-> f.err, result |-> None,
                   io |-> f.io, again |-> last.op = "prefetch"]
       /\ UNCHANGED <<channel_url, source>>

get_name_map ==
    LET f == Fetched
    IN IF f.err # ErrNone THEN Raised("get_name_map", <<>>, f)
       ELSE Returned("get_name_map", <<>>, f, f.channel_info, ErrNone,
                     name_map(f.channel_info, f.schema_version.major))

get_renamed_packages ==
    LET f == Fetched
    IN IF f.err # ErrNone THEN Raised("get_renamed_packages", <<>>, f)
       ELSE Returned("get_renamed_packages", <<>>, f, f.channel_info, ErrNone,
                     renamed_packages(f.channel_info, f.schema_version.major))

get_repositories ==
    LET f == Fetched
    IN IF f.err # ErrNone THEN Raised("get_repositories", <<>>, f)
       ELSE LET r == repositories(channel_url, f.channel_info)
            IN Returned("get_repositories", <<>>, f, f.channel_info, r.err, r.result)

get_sources ==
    LET f == Fetched
    IN IF f.err # ErrNone THEN Raised("get_sources", <<>>, f)
       ELSE LET r == repositories(channel_url, f.channel_info)
            IN Returned("get_sources", <<>>, f, f.channel_info, r.err, r.result)

get_packages(repo_url) ==
    LET f == Fetched
    IN IF f.err # ErrNone THEN Raised("get_packages", repo_url, f)
       ELSE LET r == packages(f.channel_info, f.schema_version.major, repo_url)
            IN Returned("get_packages", repo_url, f, r.channel_info, ErrNone, r.result)

get_libraries(repo_url) ==
    LET f == Fetched
    IN IF f.err # ErrNone THEN Raised("get_libraries", repo_url, f)
       ELSE LET r == libraries(f.channel_info, f.schema_version.major, repo_url)
            IN Returned("get_libraries", repo_url, f, r.channel_info, ErrNone, r.result)

\* the environment replaces what the channel location serves
SourceChange ==
    /\ source' \in AltSources \ {source}
    /\ UNCHANGED <<channel_url, channel_info, schema_version, origin, last>>

Next ==
    \/ fetch
    \/ prefetch
    \/ get_name_map
    \/ get_renamed_packages
    \/ get_repositories
    \/ get_sources
    \/ \E repo_url \in QueryUrls : get_packages(repo_url)
    \/ \E repo_url \in QueryUrls : get_libraries(repo_url)
    \/ SourceChange

Spec == Init /\ [][Next]_vars

-----------------------------------------------------------------------------
(* Properties *)

Fetched_ == channel_info # None

Major == schema_version.major

\* the step is a call: the record of the last call changes
Called ==
    \/ last'.op # last.op
    \/ last'.arg # last.arg
    \/ last'.again # last.again
    \/ last'.io # last.io
    \/ last'.err # last.err
    \/ last'.result # last.result

\* the document as fetch() cached it, before any query ran
FetchedDoc == Load(channel_url, origin).channel_info

\* C1: once fetch() has completed, no later call (fetch, prefetch or any
\* query, in any order) invokes the downloader or reads the channel file
\* again, and none replaces channel_info or schema_version by another
\* document or version, whatever the channel location serves by then.
C1_FetchedIsTerminal ==
    [][Fetched_ =>
          /\ channel_info' # None
          /\ origin' = origin
          /\ schema_version' = schema_version
          /\ channel_info'.schema_version = channel_info.schema_version
          /\ (Called => ~last'.io)]_vars

\* a query ran on a fetched instance after the location's document changed
C1_Witness ==
    /\ Fetched_
    /\ source # origin
    /\ last.op = "get_packages"
    /\ last.again
    /\ ~last.io

\* the error a fetch of what the location serves ends with: the transport
\* error, the missing file, or the AttributeError in which each of the three
\* validation failures ends
ExpectedFetchError(url, src) ==
    IF src.status = "unavailable"
    THEN IF is_http_url(url) THEN ErrDownloader ELSE ErrNoFile
    ELSE IF \/ src.status = "garbled"
            \/ "schema_version" \notin DOMAIN src.doc
            \/ src.doc.schema_version \notin {"1.0", "1.1", "1.2", "2.0", "3.0.0", "4.0.0"}
    THEN ErrNoUrlAttribute
    ELSE ErrNone

\* C2: a call on an unfetched instance whose source fails a step of fetch()
\* raises, returns nothing, and leaves channel_info and schema_version both
\* unset, so that the next call attempts the fetch again and raises the same
\* error; the instance becomes fetched only from a source that passes every
\* step.
C2_FailedFetchLeavesUnfetched ==
    [][(~Fetched_ /\ Called) =>
          /\ schema_version = None
          /\ IF ExpectedFetchError(channel_url, source) = ErrNone
             THEN channel_info' # None /\ schema_version' # None /\ origin' = source
             ELSE /\ channel_info' = None
                  /\ schema_version' = None
                  /\ last'.err = ExpectedFetchError(channel_url, source)
                  /\ (last.op # "none" /\ last.err # ErrNone) => last'.err = last.err
                  /\ last'.result = None]_vars

\* the same query was repeated against a bad source and raised again
C2_Witness ==
    /\ ~Fetched_
    /\ last.op = "get_packages"
    /\ last.again
    /\ source.status = "ok"
    /\ "schema_version" \in DOMAIN source.doc
    /\ last.err = ErrNoUrlAttribute
    /\ last.result = None

\* C3: after fetch() the cached document is read-only: whatever queries have
\* run, it equals the document as fetch() cached it.
C3_CachedDocumentReadOnly ==
    Fetched_ => channel_info = FetchedDoc


\* the records the cache held under the queried repository when fetch()
\* returned, and the output record built from the i-th of them
QueriedList(key) == DictGet(CacheOf(FetchedDoc, key), update_url(last.arg), <<>>)

ReturnedPackages ==
    /\ Fetched_
    /\ last.op = "get_packages"
    /\ last.err = ErrNone

\* the i-th record is the one the output holds under its name
Indexed(list, i) == \A j \in 1..Len(list) : list[j].name = list[i].name => j <= i

OutputOf(record) == DictGet(last.result, record.name, None)

\* C4: for a document of major version 2 or higher, get_packages(u) called
\* twice in a row returns equal outputs: the same names, the same fields, the
\* same last_modified and the same releases in the same order.
C4_GetPackagesTwiceEqual ==
    [][(/\ Fetched_
        /\ Called
        /\ last.op = "get_packages" /\ last'.op = "get_packages"
        /\ last'.arg = last.arg
        /\ last.err = ErrNone
        /\ Major >= 2)
       => last'.err = ErrNone /\ last'.result = last.result]_vars

\* the second of two get_packages calls in a row returned a package whose
\* release had its dependencies renamed by the first
C4_Witness ==
    /\ ReturnedPackages
    /\ last.again
    /\ Major \in {2, 3}
    /\ \E i \in 1..Len(last.result) :
          /\ last.result[i].v.releases # <<>>
          /\ \E r \in Range(QueriedList("packages_cache")) :
                /\ r.name = last.result[i].k
                /\ \E j \in 1..Len(r.releases) : "dependencies" \in DOMAIN r.releases[j]

\* C5: every repository key k of the document's package cache keeps its
\* record list L under rewrite(k) in the cached mapping, and get_packages(u)
\* with rewrite(u) = rewrite(k) returns the packages built from L.
C5_EveryKeyKeepsItsList ==
    Fetched_ =>
        LET pk == packages_key(Major)
            original == CacheOf(origin.doc, pk)
            cached == CacheOf(FetchedDoc, pk)
        IN \A i \in 1..Len(original) :
              /\ DictHas(cached, update_url(original[i].k))
              /\ DictGet(cached, update_url(original[i].k), <<>>) = original[i].v
              /\ (last.op = "get_packages" /\ update_url(last.arg) = update_url(original[i].k))
                    => {last.result[n].k : n \in 1..Len(last.result)}
                          = {original[i].v[n].name : n \in 1..Len(original[i].v)}

\* C6: for every key k of the document's library cache with library list L
\* and every u with rewrite(u) = rewrite(k), get_libraries(u) returns the
\* libraries of L indexed by name.
C6_LibraryLookupStable ==
    (Fetched_ /\ last.op = "get_libraries" /\ last.err = ErrNone) =>
        LET original == CacheOf(origin.doc, libraries_key(Major))
        IN \A i \in 1..Len(original) :
              update_url(last.arg) = update_url(original[i].k)
                 => {last.result[n].k : n \in 1..Len(last.result)}
                       = {original[i].v[n].name : n \in 1..Len(original[i].v)}

\* the rule of the URL resolver that applies to a kept entry
ResolvedEntry(url, entry) ==
    IF StartsWith(entry, <<"/", "/">>)
    THEN (IF is_http_url(url) THEN scheme_match(url) ELSE Https \o <<":">>) \o entry
    ELSE IF StartsWith(entry, <<".", "/">>) \/ StartsWith(entry, <<".", ".", "/">>)
    THEN IF is_http_url(url) THEN urljoin(url, entry).value
         ELSE normpath(path_join(dirname(url), entry))
    ELSE entry

RootAbsolute(entry) == StartsWith(entry, <<"/">>) /\ ~StartsWith(entry, <<"/", "/">>)

ExpectedRepositories(url, entries) ==
    LET kept == SelectSeq(entries, LAMBDA e : ~RootAbsolute(e))
    IN [i \in 1..Len(kept) |-> update_url(ResolvedEntry(url, kept[i]))]

\* C7: for every document that has a repositories list, get_repositories()
\* and get_sources() return, in the original order and without
\* deduplication, one element per entry that is not root-absolute, resolved
\* by the first matching rule ('//' prefixed with the channel's scheme or
\* 'https:', './' and '../' joined against the channel location, anything
\* else unchanged) and then rewritten.
C7_RepositoriesResolved ==
    (/\ Fetched_
     /\ last.op \in {"get_repositories", "get_sources"}
     /\ "repositories" \in DOMAIN channel_info)
    => /\ last.err = ErrNone
       /\ last.result = ExpectedRepositories(channel_url, channel_info.repositories)

\* C8 as stated: a fetched instance's document holds both required keys.
C8_BothKeysCached ==
    Fetched_ => {"schema_version", "repositories"} \subseteq DOMAIN channel_info

\* C8 as amended: a fetched instance's document holds a schema_version key of
\* a supported version, which schema_version is parsed from; the repositories
\* key is looked for by get_repositories() and get_sources() only, which
\* raise an error on a cached document that lacks it and return no list.
C8_SchemaVersionCached ==
    Fetched_ =>
        /\ "schema_version" \in DOMAIN channel_info
        /\ SchemaSupported(channel_info.schema_version)
        /\ schema_version = [major |-> SchemaMajor(channel_info.schema_version)]
        /\ (last.op \in {"get_repositories", "get_sources"}
              /\ "repositories" \notin DOMAIN channel_info)
             => (last.err # ErrNone /\ last.result = None)

\* a document without repositories is cached and get_repositories() raised
C8_Witness ==
    /\ Fetched_
    /\ "repositories" \notin DOMAIN channel_info
    /\ last.op = "get_repositories"
    /\ last.err # ErrNone
    /\ last.result = None

HasBoth(release) == {"dependencies", "libraries"} \subseteq DOMAIN release

Renamed(release) ==
    IF "dependencies" \in DOMAIN release
    THEN SetKey(DelKey(release, "dependencies"), "libraries", release.dependencies)
    ELSE release

\* C9 as stated: no release in the output of get_packages carries both
\* dependencies and libraries, whatever the document's version.
C9_NeverBothKeys ==
    ReturnedPackages =>
        \A i \in 1..Len(last.result) :
           \A r \in Range(last.result[i].v.releases) : ~HasBoth(r)

\* C9 as amended: for a document of major version 2 or 3 no release in the
\* output carries a dependencies key, and a release whose source record had
\* dependencies = D is returned with libraries = D; for major version 4 the
\* releases are returned with the keys their source records had.
C9_RenamedBelowFour ==
    (ReturnedPackages /\ Major >= 2) =>
        LET list == QueriedList("packages_cache")
        IN \A i \in 1..Len(list) :
              Indexed(list, i) =>
                 LET out == OutputOf(list[i]).releases
                     src == list[i].releases
                 IN /\ Len(out) = Len(src)
                    /\ Major < 4 => \A r \in Range(out) : "dependencies" \notin DOMAIN r
                    /\ \A s \in Range(src) :
                          (IF Major < 4 THEN Renamed(s) ELSE s) \in Range(out)

\* a major 2 or 3 release that had both keys was returned renamed
C9_Witness ==
    /\ ReturnedPackages
    /\ Major = 3
    /\ \E p \in Range(QueriedList("packages_cache")) :
          /\ \E s \in Range(p.releases) : HasBoth(s)
          /\ \E r \in Range(OutputOf(p).releases) :
                "libraries" \in DOMAIN r /\ r.libraries = <<"lib-a">>

DeclaredDates(releases) == {releases[i].date : i \in {j \in 1..Len(releases) : "date" \in DOMAIN releases[j]}}

MaxDeclared(releases) ==
    IF DeclaredDates(releases) = {} THEN NoDate
    ELSE CHOOSE d \in DeclaredDates(releases) : \A e \in DeclaredDates(releases) : e <= d

\* C10: for a document of major version 2 or higher, get_packages sets
\* last_modified to the greatest date over the releases that declare one,
\* in every order of the releases, and to null when none does; releases
\* without a date stay in the returned list.
C10_LastModifiedIsMaxDate ==
    (ReturnedPackages /\ Major >= 2) =>
        LET list == QueriedList("packages_cache")
        IN \A i \in 1..Len(list) :
              Indexed(list, i) =>
                 /\ OutputOf(list[i]).last_modified = MaxDeclared(list[i].releases)
                 /\ Len(OutputOf(list[i]).releases) = Len(list[i].releases)
                 /\ \A s \in Range(list[i].releases) :
                       "date" \notin DOMAIN s
                          => \E r \in Range(OutputOf(list[i]).releases) :
                                r.version = s.version /\ "date" \notin DOMAIN r

====
